---- MODULE Spec2Model ----
(***************************************************************************)
(* A model of mcp-gopls:                                                   *)
(*   - the lifecycle controller, run() of cmd/mcp-gopls/main.go, driven    *)
(*     against the stubService of main_test.go (SpecRun, SpecRunFair);     *)
(*   - the testing tools of pkg/tools/testing.go: the analyze_coverage and *)
(*     run_go_test handlers, the per-function coverage pipeline and the    *)
(*     progress notifier of pkg/tools/notifications.go (SpecTools);        *)
(*   - one call of sendProgressNotification or normalizePackageTarget on   *)
(*     arguments of every kind (SpecPure);                                 *)
(*   - two invocations of runCoverageByFunction running at once (SpecConc).*)
(* Strings that the code converts (ToLower, TrimSpace, HasSuffix) are      *)
(* sequences of one-character strings; strings it only compares are TLA+   *)
(* strings.  An error value is the sequence of its message parts, outermost*)
(* wrapper first; the nil error is the empty sequence.                     *)
(***************************************************************************)
EXTENDS Integers, Sequences, FiniteSets, TLC

VARIABLES
    \* ---- lifecycle controller: run()
    pc,            \* position of run()
    flags,         \* the parsed flag values (flag.Parse with env fallbacks)
    factoryErr,    \* the error newServiceFn returns (Nil: it returns a service)
    startErr,      \* stubService.startErr
    cfg,           \* the configuration run() holds
    ret,           \* run()'s return value, once pc = "done"
    stdout,        \* the lines printed
    calls,         \* the calls run() made, in order
    deferred,      \* run()'s stack of deferred calls
    ctx,           \* the signal context: "none", "active", "signalled", "stopped"
    startRet,      \* what Start returned ("pending" before it returns)
    closeOnce,     \* stubService.closeOnce has fired
    closeCalled,   \* stubService.closeCalled
    closeEffects,  \* how many times the body under closeOnce ran
    otherCloses,   \* Close calls made by callers other than run()
    \* ---- testing tools: one tool invocation at a time
    tpc,           \* position of the handler
    req,           \* the request: tool, path, output_format, token
    ws,            \* LSPTools.workspaceDir and what ReadDir finds there
    chan,          \* the server and its notification channel, see Channels
    target,        \* the normalized package target
    mode,          \* payload["mode"]
    tempFile,      \* the pipeline's profile file name (0: none)
    fs,            \* the temporary files that exist
    nextTemp,      \* the next fresh name os.CreateTemp hands out
    cmds,          \* the external commands executed, in order, with outcomes
    events,        \* the pipeline's file and command events, in order
    notes,         \* the progress notifications delivered to the client
    pdeferred,     \* runCoverageByFunction's stack of deferred calls
    pipe,          \* runCoverageByFunction's results so far and its return value
    result,        \* the handler's return value
    trace,         \* the notifier calls and command executions, in order
    \* ---- a single call of a function of pkg/tools
    call,          \* the function and its arguments
    out,           \* what it returned (NoOut before it returns)
    \* ---- runCoverageByFunction, two invocations at once
    jobs,          \* per invocation: position, profile file, deferred calls
    cfs,           \* the temporary files that exist, each with its creator
    clog           \* the file and command events of both invocations, in order

runVars == <<pc, flags, factoryErr, startErr, cfg, ret, stdout, calls, deferred,
             ctx, startRet, closeOnce, closeCalled, closeEffects, otherCloses>>
toolVars == <<tpc, req, ws, chan, target, mode, tempFile, fs, nextTemp, cmds,
              events, notes, pdeferred, pipe, result, trace>>
pureVars == <<call, out>>
concVars == <<jobs, cfs, clog>>
vars == <<runVars, toolVars, pureVars, concVars>>

(***************************************************************************)
(* Bounds                                                                  *)
(***************************************************************************)
MaxTimeout == 1
MaxOtherCloses == 1
MaxTempFiles == 2
MaxTempNames == 2

(***************************************************************************)
(* Errors                                                                  *)
(***************************************************************************)
Nil == <<>>

Wrap_unwrapped(prefix, err) == err

\* fmt.Errorf("<prefix>: %w", err)
Wrap(prefix, err) == <<prefix>> \o err

(***************************************************************************)
(* Strings as character sequences                                          *)
(***************************************************************************)
\* unicode.ToLower on the letters the flag values below use
LowerChar(c) ==
    CASE c = "D" -> "d" [] c = "E" -> "e" [] c = "B" -> "b" [] c = "U" -> "u"
      [] c = "G" -> "g" [] c = "I" -> "i" [] c = "N" -> "n" [] c = "F" -> "f"
      [] c = "O" -> "o" [] c = "W" -> "w" [] c = "A" -> "a" [] c = "R" -> "r"
      [] OTHER -> c

\* strings.ToLower
ToLower(s) == [i \in 1..Len(s) |-> LowerChar(s[i])]

S_debug == <<"d","e","b","u","g">>
S_info == <<"i","n","f","o">>
S_warn == <<"w","a","r","n">>
S_warning == <<"w","a","r","n","i","n","g">>
S_error == <<"e","r","r","o","r">>

\* the values of -log-level / MCP_GOPLS_LOG_LEVEL considered
LogLevelInputs ==
    { S_info,
      <<"I","N","F","O">>,
      S_debug,
      <<"W","a","r","n">>,
      S_warning,
      <<"E","r","r","o","r">>,
      <<"v","e","r","b","o","s","e">>,
      <<"t","r","a","c","e">> }

(***************************************************************************)
(* Configuration building                                                  *)
(***************************************************************************)
\* what a path names on the file system
PathKinds == {"unset", "missing", "file", "dir"}
ExecKinds == {"unset", "missing", "dir", "noexec", "exec"}
Timeouts == -1..MaxTimeout

FlagValues ==
    [workspace : PathKinds, gopls : ExecKinds, logLevel : LogLevelInputs,
     rpcTimeout : Timeouts, shutdownTimeout : Timeouts]

\* server.Config{} : the zero value returned beside an error
ZeroConfig ==
    [WorkspaceDir |-> "unset", GoplsPath |-> "unset", LogLevel |-> "info",
     RPCTimeout |-> 0, ShutdownTimeout |-> 0]

\* server.DefaultConfig(); run() overwrites both timeouts and the level
DefaultConfig ==
    [WorkspaceDir |-> "unset", GoplsPath |-> "unset", LogLevel |-> "info",
     RPCTimeout |-> 0, ShutdownTimeout |-> 0]

\* parseLogLevel: <<level, err>>
parseLogLevel(level) ==
    LET l == ToLower(level) IN
    CASE l = S_debug -> <<"debug", Nil>>
      [] l = S_info -> <<"info", Nil>>
      [] l = S_warn \/ l = S_warning -> <<"warn", Nil>>
      [] l = S_error -> <<"error", Nil>>
      [] OTHER -> <<"info", <<"unknown log level">>>>

\* ensureDirectory: os.Stat fails on a missing path; a file is not a directory
ensureDirectory(path) ==
    IF path = "missing" THEN <<"workspace dir", "stat">>
    ELSE IF path # "dir" THEN <<"workspace dir is not a directory">>
    ELSE Nil

\* exec.LookPath finds only an executable regular file
LookPathOK(path) == path = "exec"

\* resolveExecutable: <<resolved, err>>
resolveExecutable(path) ==
    IF ~LookPathOK(path) THEN <<"unset", <<"resolve gopls binary", "lookpath">>>>
    ELSE IF path = "missing" THEN <<"unset", <<"stat gopls binary", "stat">>>>
    ELSE IF path = "dir" THEN <<"unset", <<"gopls binary is a directory">>>>
    ELSE IF path = "noexec" THEN <<"unset", <<"gopls binary is not executable">>>>
    ELSE <<path, Nil>>

validateTimeouts_lt(c) ==
    IF c.RPCTimeout < 0 THEN <<"rpc-timeout must be positive">>
    ELSE IF c.ShutdownTimeout < 0 THEN <<"shutdown-timeout must be positive">>
    ELSE Nil

\* validateTimeouts
validateTimeouts(c) ==
    IF c.RPCTimeout <= 0 THEN <<"rpc-timeout must be positive">>
    ELSE IF c.ShutdownTimeout <= 0 THEN <<"shutdown-timeout must be positive">>
    ELSE Nil

\* buildConfigFromFlags: <<cfg, err>>
buildConfigFromFlags(f) ==
    LET wsErr == IF f.workspace # "unset" THEN ensureDirectory(f.workspace) ELSE Nil
        c1 == IF f.workspace # "unset"
              THEN [DefaultConfig EXCEPT !.WorkspaceDir = f.workspace]
              ELSE DefaultConfig
        res == IF f.gopls # "unset" THEN resolveExecutable(f.gopls)
               ELSE <<"unset", Nil>>
        c2 == IF f.gopls # "unset" THEN [c1 EXCEPT !.GoplsPath = res[1]] ELSE c1
        c3 == [c2 EXCEPT !.RPCTimeout = f.rpcTimeout,
                         !.ShutdownTimeout = f.shutdownTimeout]
        lvl == parseLogLevel(f.logLevel)
        c4 == [c3 EXCEPT !.LogLevel = lvl[1]]
    IN  IF wsErr # Nil THEN <<ZeroConfig, wsErr>>
        ELSE IF res[2] # Nil THEN <<ZeroConfig, res[2]>>
        ELSE IF lvl[2] # Nil THEN <<ZeroConfig, Wrap("parse log level", lvl[2])>>
        ELSE IF validateTimeouts(c4) # Nil THEN <<ZeroConfig, validateTimeouts(c4)>>
        ELSE <<c4, Nil>>

(***************************************************************************)
(* pkg/tools: target normalization                                         *)
(***************************************************************************)
\* unicode.IsSpace on the characters the requests below use
IsSpace(c) == c \in {" ", "\t", "\n", "\r"}

SetMin(S) == CHOOSE x \in S : \A y \in S : x <= y
SetMax(S) == CHOOSE x \in S : \A y \in S : x >= y

\* strings.TrimSpace
TrimSpace(s) ==
    LET keep == {i \in 1..Len(s) : ~IsSpace(s[i])} IN
    IF keep = {} THEN <<>> ELSE SubSeq(s, SetMin(keep), SetMax(keep))

\* strings.HasSuffix
HasSuffix(s, suffix) ==
    /\ Len(s) >= Len(suffix)
    /\ SubSeq(s, Len(s) - Len(suffix) + 1, Len(s)) = suffix

P_dot == <<".">>
P_dotSlash == <<".", "/">>
P_all == <<".", "/", ".", ".", ".">>
P_pkg == <<".", "/", "p">>
DotGo == <<".", "g", "o">>

\* the "path" arguments considered
PathArgs ==
    { <<>>, P_dot, P_dotSlash, P_all, P_pkg,
      <<" ", ".", "\t">>, <<" ", " ">>, <<" ", ".", "/", "p", " ">> }

\* directory entries: a Go file, a plain file, a package directory and a
\* directory whose name ends in .go
E_mainGo == [name |-> <<"m", ".", "g", "o">>, isDir |-> FALSE]
E_readme == [name |-> <<"R", ".", "m", "d">>, isDir |-> FALSE]
E_pkgDir == [name |-> <<"p">>, isDir |-> TRUE]
E_goDir == [name |-> <<"x", ".", "g", "o">>, isDir |-> TRUE]

\* LSPTools.workspaceDir ("" when unset) and what os.ReadDir answers for it
Workspaces ==
    { [dir |-> "unset", readErr |-> FALSE, entries |-> {}],
      [dir |-> "set", readErr |-> TRUE, entries |-> {}],
      [dir |-> "set", readErr |-> FALSE, entries |-> {}],
      [dir |-> "set", readErr |-> FALSE, entries |-> {E_pkgDir, E_readme}],
      [dir |-> "set", readErr |-> FALSE, entries |-> {E_pkgDir, E_goDir}],
      [dir |-> "set", readErr |-> FALSE, entries |-> {E_pkgDir, E_mainGo}] }

dirHasGoFiles_countDirs(w) ==
    IF w.readErr THEN <<FALSE, <<"readdir">>>>
    ELSE <<\E e \in w.entries : HasSuffix(e.name, DotGo), Nil>>

\* dirHasGoFiles: <<hasGoFiles, err>>
dirHasGoFiles(w) ==
    IF w.readErr THEN <<FALSE, <<"readdir">>>>
    ELSE <<\E e \in w.entries : ~e.isDir /\ HasSuffix(e.name, DotGo), Nil>>

normalizePackageTarget_noTrim(w, requested) ==
    LET t == TrimSpace(requested) IN
    IF t = <<>> THEN P_all
    ELSE IF w.dir = "unset" THEN requested
    ELSE IF (t = P_dot \/ t = P_dotSlash)
            /\ dirHasGoFiles(w)[2] = Nil /\ ~dirHasGoFiles(w)[1]
         THEN P_all
    ELSE requested

\* normalizePackageTarget
normalizePackageTarget(w, requested) ==
    LET t == TrimSpace(requested) IN
    IF t = <<>> THEN P_all
    ELSE IF w.dir = "unset" THEN t
    ELSE IF (t = P_dot \/ t = P_dotSlash)
            /\ dirHasGoFiles(w)[2] = Nil /\ ~dirHasGoFiles(w)[1]
         THEN P_all
    ELSE t

(***************************************************************************)
(* pkg/tools: progress notifications                                       *)
(***************************************************************************)
NoToken == "nil"
\* request.Params.Meta: absent, without a token, with a token
Metas ==
    { [present |-> FALSE, ProgressToken |-> NoToken],
      [present |-> TRUE, ProgressToken |-> NoToken],
      [present |-> TRUE, ProgressToken |-> "tok"] }

getProgressToken_nil(meta) == NoToken

\* getProgressToken
getProgressToken(meta) ==
    IF ~meta.present THEN NoToken ELSE meta.ProgressToken

\* the server and its channel to the client: "ok", "sendfail"
\* (SendNotificationToClient returns an error), "payloadfail"
\* (NewProgressNotification returns an error), "nosrv" (the server is nil)
Channels == {"ok", "sendfail", "payloadfail", "nosrv"}

\* protocol.NewProgressNotification: <<payload, err>>
NewProgressNotification(ch, token, progress, message) ==
    IF ch = "payloadfail"
    THEN <<[ProgressToken |-> NoToken, Progress |-> 0, Message |-> <<>>], <<"payload">>>>
    ELSE <<[ProgressToken |-> token, Progress |-> progress, Message |-> message], Nil>>

sendProgressNotification_noNilCheck(srvNil, ch, token, message) ==
    LET r == NewProgressNotification(ch, token, 0, message)
        payload == r[1]
        params ==
            IF payload.Message # <<>>
            THEN [progressToken |-> payload.ProgressToken,
                  progress |-> payload.Progress, message |-> payload.Message]
            ELSE [progressToken |-> payload.ProgressToken,
                  progress |-> payload.Progress]
    IN  IF r[2] # Nil THEN <<>>
        ELSE IF ch = "ok" THEN <<params>> ELSE <<>>

sendProgressNotification_alwaysMessage(srvNil, ch, token, message) ==
    IF srvNil \/ token = NoToken THEN <<>>
    ELSE LET r == NewProgressNotification(ch, token, 0, message)
             payload == r[1]
             params == [progressToken |-> payload.ProgressToken,
                        progress |-> payload.Progress, message |-> payload.Message]
         IN  IF r[2] # Nil THEN <<>>
             ELSE IF ch = "ok" THEN <<params>> ELSE <<>>

\* sendProgressNotification: the notifications it delivers
sendProgressNotification(srvNil, ch, token, message) ==
    IF srvNil \/ token = NoToken THEN <<>>
    ELSE LET r == NewProgressNotification(ch, token, 0, message)
             payload == r[1]
             params ==
                 IF payload.Message # <<>>
                 THEN [progressToken |-> payload.ProgressToken,
                       progress |-> payload.Progress, message |-> payload.Message]
                 ELSE [progressToken |-> payload.ProgressToken,
                       progress |-> payload.Progress]
         IN  IF r[2] # Nil THEN <<>>
             ELSE IF ch = "ok" THEN <<params>> ELSE <<>>

\* a call of sendProgressNotification, as the trace records it
NotifyCall(token, message) == <<"notify", token, message>>

(***************************************************************************)
(* pkg/tools: running commands                                             *)
(***************************************************************************)
\* how an external process ends: exit status 0, a non-zero exit status, or
\* no completed run at all (executable not found, killed, I/O error)
Completions == {"ok", "exit"}
ExecErrors == {"notfound", "killed", "io"}
Outcomes == Completions \cup ExecErrors

ExitError == "*exec.ExitError"

\* the error of a command that ended with `outcome`
CommandErr(outcome) ==
    IF outcome = "ok" THEN Nil
    ELSE IF outcome = "exit" THEN <<ExitError>>
    ELSE <<outcome>>

\* commandResult
CommandResult(kind, tgt, profile, outcome) ==
    [kind |-> kind, target |-> tgt, profile |-> profile, outcome |-> outcome]

ZeroResult == CommandResult("none", <<>>, 0, "none")

\* LSPTools.runCommand: a notifier call, the execution, a notifier call
runCommandTrace(token, kind) ==
    << NotifyCall(token, <<"started", kind>>),
       <<"exec", kind>>,
       NotifyCall(token, <<"finished", kind>>) >>

\* LSPTools.runCommand: the notifications bracketing the execution
runCommandNotes(ch, token, kind) ==
    sendProgressNotification(ch = "nosrv", ch, token, <<"started", kind>>)
        \o sendProgressNotification(ch = "nosrv", ch, token, <<"finished", kind>>)

isExitSuccess_never(err) == FALSE

isExitSuccess_always(err) == TRUE

\* isExitSuccess: errors.As(err, **exec.ExitError)
isExitSuccess(err) == \E i \in 1..Len(err) : err[i] = ExitError

ExecFailed_anyErr(err) == err # Nil

\* err != nil && !isExitSuccess(err)
ExecFailed(err) == err # Nil /\ ~isExitSuccess(err)

\* mcp.NewToolResultJSON: <<result, err>>; a payload of strings and command
\* results always marshals
NewToolResultJSON(payload) == <<[kind |-> "json", payload |-> payload], Nil>>

\* mcp.NewToolResultErrorFromErr
NewToolResultErrorFromErr(msg, err) == [kind |-> "toolError", msg |-> msg, err |-> err]

\* what a handler returns: (*mcp.CallToolResult, error)
HandlerReturn(res, err) == [kind |-> res.kind, res |-> res, goErr |-> err]

\* handler epilogue, lines 74-78 and 140-144
ReturnJSON(payload) ==
    LET r == NewToolResultJSON(payload) IN
    IF r[2] # Nil THEN HandlerReturn([kind |-> "nil"], r[2])
    ELSE HandlerReturn(r[1], Nil)

(***************************************************************************)
(* pkg/tools: requests                                                     *)
(***************************************************************************)
Formats == {"", "summary", "func", "html", "FUNC"}

\* a tools/call request: the tool, its "path" and "output_format" arguments
\* when given as strings, and the request's metadata
Requests ==
    { r \in [tool : {"analyze_coverage", "run_go_test"},
             hasPath : BOOLEAN, path : PathArgs,
             hasFormat : BOOLEAN, format : Formats,
             meta : Metas] :
        /\ ~r.hasPath => r.path = <<>>
        /\ ~r.hasFormat => r.format = ""
        /\ r.tool = "run_go_test" => ~r.hasFormat }

NoRequest ==
    [tool |-> "none", hasPath |-> FALSE, path |-> <<>>, hasFormat |-> FALSE,
     format |-> "", meta |-> [present |-> FALSE, ProgressToken |-> NoToken]]
NoWorkspace == [dir |-> "unset", readErr |-> FALSE, entries |-> {}]
NoReturn == [kind |-> "none", res |-> [kind |-> "none"], goErr |-> Nil]
NoPipe == [returned |-> FALSE, test |-> ZeroResult, cover |-> <<>>, err |-> Nil]

toolsIdle ==
    /\ tpc = "idle"
    /\ req = NoRequest
    /\ ws = NoWorkspace
    /\ chan = "ok"
    /\ target = <<>>
    /\ mode = ""
    /\ tempFile = 0
    /\ fs = {}
    /\ nextTemp = 1
    /\ cmds = <<>>
    /\ events = <<>>
    /\ notes = <<>>
    /\ pdeferred = <<>>
    /\ pipe = NoPipe
    /\ result = NoReturn
    /\ trace = <<>>

NoCall == [fn |-> "none"]
NoOut == [returned |-> FALSE]
pureIdle == call = NoCall /\ out = NoOut

NoJobs == <<>>
concIdle == jobs = NoJobs /\ cfs = <<>> /\ clog = <<>>

(***************************************************************************)
(* stubService (main_test.go)                                              *)
(***************************************************************************)
\* the errors the stub's Start is configured with
StartErrs == {Nil, <<"boom">>}
\* the errors the service factory is configured with
FactoryErrs == {Nil, <<"factory failure">>}

CloseBody_noOnce(once) == TRUE

\* sync.Once.Do: the body runs only on the first call
CloseBody(once) == ~once

\* stubService.Close
Close ==
    /\ closeOnce' = TRUE
    /\ closeCalled' = (closeCalled \/ CloseBody(closeOnce))
    /\ closeEffects' = closeEffects + (IF CloseBody(closeOnce) THEN 1 ELSE 0)

(***************************************************************************)
(* run()                                                                   *)
(***************************************************************************)
CompletionLine == "mcp-gopls shutdown complete"

InitRun ==
    /\ pc = "config"
    /\ flags \in FlagValues
    /\ factoryErr \in FactoryErrs
    /\ startErr \in StartErrs
    /\ cfg = ZeroConfig
    /\ ret = Nil
    /\ stdout = <<>>
    /\ calls = <<>>
    /\ deferred = <<>>
    /\ ctx = "none"
    /\ startRet = <<"pending">>
    /\ closeOnce = FALSE
    /\ closeCalled = FALSE
    /\ closeEffects = 0
    /\ otherCloses = 0
    /\ toolsIdle
    /\ pureIdle
    /\ concIdle

svcVars == <<closeOnce, closeCalled, closeEffects, otherCloses>>

\* run(): `return err` / `return nil` : the deferred calls run next
Return(err) ==
    /\ ret' = err
    /\ pc' = "unwind"

\* line 36-39: cfg, err := buildConfigFromFlags()
BuildConfig ==
    /\ pc = "config"
    /\ LET r == buildConfigFromFlags(flags) IN
         /\ cfg' = r[1]
         /\ calls' = Append(calls, "buildConfig")
         /\ IF r[2] # Nil
            THEN Return(r[2])
            ELSE /\ pc' = "factory"
                 /\ ret' = ret
    /\ UNCHANGED <<flags, factoryErr, startErr, stdout, deferred, ctx, startRet,
                   svcVars, toolVars, pureVars, concVars>>

DefersAfterConstruct_none == <<>>

\* line 45: defer svc.Close(context.Background())
DefersAfterConstruct == <<"Close">>

\* line 41-45: svc, err := newServiceFn(cfg)
NewService ==
    /\ pc = "factory"
    /\ calls' = Append(calls, "factory")
    /\ IF factoryErr # Nil
       THEN /\ Return(Wrap("create service", factoryErr))
            /\ deferred' = deferred
       ELSE /\ deferred' = deferred \o DefersAfterConstruct
            /\ pc' = "notify"
            /\ ret' = ret
    /\ UNCHANGED <<flags, factoryErr, startErr, cfg, stdout, ctx, startRet,
                   svcVars, toolVars, pureVars, concVars>>

\* line 47-48: ctx, stop := notifyContextF(...); defer stop()
NotifyContext ==
    /\ pc = "notify"
    /\ calls' = Append(calls, "notify")
    /\ ctx' = "active"
    /\ deferred' = Append(deferred, "stop")
    /\ pc' = "start"
    /\ UNCHANGED <<flags, factoryErr, startErr, cfg, ret, stdout, startRet,
                   svcVars, toolVars, pureVars, concVars>>

\* an interrupt or SIGTERM while the signal context is registered cancels it
Signal ==
    /\ ctx = "active"
    /\ ctx' = "signalled"
    /\ UNCHANGED <<pc, flags, factoryErr, startErr, cfg, ret, stdout, calls,
                   deferred, startRet, svcVars, toolVars, pureVars, concVars>>

\* ctx.Err() != nil
Cancelled(c) == c \in {"signalled", "stopped"}

\* line 50 and stubService.Start up to <-ctx.Done()
StartCall ==
    /\ pc = "start"
    /\ calls' = Append(calls, "Start")
    /\ IF startErr # Nil
       THEN /\ startRet' = startErr
            /\ pc' = "afterStart"
       ELSE /\ startRet' = startRet
            /\ pc' = "blocked"
    /\ UNCHANGED <<flags, factoryErr, startErr, cfg, ret, stdout, deferred, ctx,
                   svcVars, toolVars, pureVars, concVars>>

\* stubService.Start: <-ctx.Done(); return nil
StartUnblock ==
    /\ pc = "blocked"
    /\ Cancelled(ctx)
    /\ startRet' = Nil
    /\ pc' = "afterStart"
    /\ UNCHANGED <<flags, factoryErr, startErr, cfg, ret, stdout, calls, deferred,
                   ctx, svcVars, toolVars, pureVars, concVars>>

StartFailed_never(err) == FALSE

\* line 50: err != nil
StartFailed(err) == err # Nil

\* line 50-52
AfterStart ==
    /\ pc = "afterStart"
    /\ IF StartFailed(startRet)
       THEN Return(Wrap("service error", startRet))
       ELSE /\ pc' = "println"
            /\ ret' = ret
    /\ UNCHANGED <<flags, factoryErr, startErr, cfg, stdout, calls, deferred, ctx,
                   startRet, svcVars, toolVars, pureVars, concVars>>

\* line 54-55: fmt.Println(...); return nil
Println ==
    /\ pc = "println"
    /\ stdout' = Append(stdout, CompletionLine)
    /\ Return(Nil)
    /\ UNCHANGED <<flags, factoryErr, startErr, cfg, calls, deferred, ctx,
                   startRet, svcVars, toolVars, pureVars, concVars>>

\* the deferred stop() (line 48): releases the signal registration and
\* cancels the context
DeferredStop ==
    /\ pc = "unwind"
    /\ deferred # <<>>
    /\ deferred[Len(deferred)] = "stop"
    /\ deferred' = SubSeq(deferred, 1, Len(deferred) - 1)
    /\ calls' = Append(calls, "stop")
    /\ ctx' = IF ctx = "active" THEN "stopped" ELSE ctx
    /\ UNCHANGED <<pc, flags, factoryErr, startErr, cfg, ret, stdout, startRet,
                   svcVars, toolVars, pureVars, concVars>>

\* the deferred svc.Close (line 45)
DeferredClose ==
    /\ pc = "unwind"
    /\ deferred # <<>>
    /\ deferred[Len(deferred)] = "Close"
    /\ deferred' = SubSeq(deferred, 1, Len(deferred) - 1)
    /\ calls' = Append(calls, "Close")
    /\ Close
    /\ UNCHANGED <<pc, flags, factoryErr, startErr, cfg, ret, stdout, ctx,
                   startRet, otherCloses, toolVars, pureVars, concVars>>

\* run() returns to main once no deferred call is left
Returned ==
    /\ pc = "unwind"
    /\ deferred = <<>>
    /\ pc' = "done"
    /\ UNCHANGED <<flags, factoryErr, startErr, cfg, ret, stdout, calls, deferred,
                   ctx, startRet, svcVars, toolVars, pureVars, concVars>>

\* the service exists: the factory returned it
Constructed == \E i \in 1..Len(calls) : calls[i] = "factory" /\ factoryErr = Nil

\* Close called from another path than run()'s deferred call
OtherClose ==
    /\ Constructed
    /\ otherCloses < MaxOtherCloses
    /\ otherCloses' = otherCloses + 1
    /\ Close
    /\ UNCHANGED <<pc, flags, factoryErr, startErr, cfg, ret, stdout, calls,
                   deferred, ctx, startRet, toolVars, pureVars, concVars>>

RunStep ==
    \/ BuildConfig
    \/ NewService
    \/ NotifyContext
    \/ StartCall
    \/ StartUnblock
    \/ AfterStart
    \/ Println
    \/ DeferredStop
    \/ DeferredClose
    \/ Returned

NextRun ==
    \/ RunStep
    \/ Signal
    \/ OtherClose

SpecRun == InitRun /\ [][NextRun]_vars

\* the goroutine running run() is scheduled while it can take a step; signals
\* and other callers of Close are under no obligation
SpecRunFair == InitRun /\ [][NextRun]_vars /\ WF_vars(RunStep)

(***************************************************************************)
(* Claims about run()                                                      *)
(***************************************************************************)
Has(seq, x) == \E i \in 1..Len(seq) : seq[i] = x
Count(seq, x) == Cardinality({i \in 1..Len(seq) : seq[i] = x})
Before(seq, x, y) ==
    \A j \in 1..Len(seq) : seq[j] = y => \E i \in 1..(j - 1) : seq[i] = x

\* C1: once the factory has returned a service, run() has invoked the
\* service's Close by the time it returns, whether Start returned nil after a
\* cancellation or returned an error.
C1_CloseOnEveryExit ==
    (pc = "done" /\ Constructed) =>
        /\ Has(calls, "Close")
        /\ closeCalled
        /\ Has(calls, "Start") => Before(calls, "Start", "Close")

\* run() returned a Start error and had closed the service
C1_Witness ==
    /\ pc = "done"
    /\ startRet = <<"boom">>
    /\ ret = <<"service error", "boom">>
    /\ Has(calls, "Close")

\* C2: when a signal has cancelled the context while Start is blocked on it,
\* then eventually, and from then on, run() has returned nil after Start
\* returned under a cancelled context, the completion line is printed, and
\* the body of Close ran exactly once, however many callers Close had.
C2_SignalShutdown ==
    (pc = "blocked" /\ ctx = "signalled") ~>
        [](/\ pc = "done"
           /\ startRet = Nil
           /\ Cancelled(ctx)
           /\ ret = Nil
           /\ stdout = <<CompletionLine>>
           /\ closeEffects = 1)

\* a signalled run has returned, and Close was called by run() and by
\* another caller
C2_Witness ==
    /\ pc = "done"
    /\ ctx = "signalled"
    /\ Has(calls, "Close")
    /\ otherCloses >= 1
    /\ closeEffects = 1
    /\ stdout = <<CompletionLine>>

\* C3: the completion line is printed at most once, and only when Start
\* returned nil under a context cancelled by a signal: never when
\* configuration building fails, the factory fails or Start returns an error.
C3_CompletionOnlyOnCleanPath ==
    /\ Len(stdout) <= 1
    /\ \A i \in 1..Len(stdout) : stdout[i] = CompletionLine
    /\ stdout # <<>> =>
        /\ buildConfigFromFlags(flags)[2] = Nil
        /\ factoryErr = Nil
        /\ startErr = Nil
        /\ startRet = Nil
        /\ ctx = "signalled"
    /\ (pc = "done" /\ ret # Nil) => stdout = <<>>

\* the line is printed and run() has returned nil
C3_Witness ==
    /\ pc = "done"
    /\ ret = Nil
    /\ stdout = <<CompletionLine>>

\* C4: whenever the completion line is printed, run()'s call of Close has
\* already been made and has returned.
C4_CloseBeforeCompletionLine ==
    stdout # <<>> => (Has(calls, "Close") /\ closeCalled)

\* the flag values the claim names as invalid
UnknownLevels == {<<"v","e","r","b","o","s","e">>, <<"t","r","a","c","e">>}
BadFlags(f) ==
    \/ f.rpcTimeout <= 0
    \/ f.shutdownTimeout <= 0
    \/ f.logLevel \in UnknownLevels
    \/ f.workspace = "missing"

\* C5: with a non-positive RPC or shutdown timeout, an unknown log level or
\* a workspace directory that does not exist, buildConfigFromFlags returns an
\* error and run() returns that error; the factory, Start and Close are
\* never called.
C5_BadConfigStopsBeforeService ==
    BadFlags(flags) =>
        /\ buildConfigFromFlags(flags)[2] # Nil
        /\ pc \in {"config", "unwind", "done"}
        /\ pc # "config" => ret = buildConfigFromFlags(flags)[2]
        /\ ~Has(calls, "factory")
        /\ ~Has(calls, "Start")
        /\ ~Has(calls, "Close")
        /\ closeEffects = 0
        /\ otherCloses = 0

\* run() returned the error of a zero RPC timeout; every other flag is valid
C5_Witness ==
    /\ pc = "done"
    /\ flags.rpcTimeout = 0
    /\ flags.shutdownTimeout = 1
    /\ flags.workspace = "dir"
    /\ flags.gopls = "exec"
    /\ flags.logLevel = S_info
    /\ ret = <<"rpc-timeout must be positive">>
    /\ calls = <<"buildConfig">>

\* C6: run() returns an error exactly when configuration building failed, the
\* factory failed or Start returned an error; a factory error comes back as
\* "create service: ..." with neither Start nor Close called, a Start error as
\* "service error: ..."; Start is called at most once, and only after the
\* configuration was built and the service constructed.
C6_ErrorIffFailure ==
    LET buildErr == buildConfigFromFlags(flags)[2]
        factoryFailed == Has(calls, "factory") /\ factoryErr # Nil
        startFailed == Has(calls, "Start") /\ startRet = <<"boom">>
    IN  /\ Count(calls, "Start") <= 1
        /\ Has(calls, "Start") =>
              /\ buildErr = Nil
              /\ factoryErr = Nil
              /\ Before(calls, "buildConfig", "Start")
              /\ Before(calls, "factory", "Start")
        /\ pc = "done" =>
              /\ (ret # Nil) <=> (buildErr # Nil \/ factoryFailed \/ startFailed)
              /\ buildErr # Nil => ret = buildErr
              /\ factoryFailed =>
                    /\ ret = <<"create service", "factory failure">>
                    /\ ~Has(calls, "Start")
                    /\ ~Has(calls, "Close")
                    /\ closeEffects = 0
              /\ startFailed => ret = <<"service error", "boom">>

\* run() returned the wrapped factory error
C6_Witness ==
    /\ pc = "done"
    /\ factoryErr = <<"factory failure">>
    /\ ret = <<"create service", "factory failure">>
    /\ calls = <<"buildConfig", "factory">>


(***************************************************************************)
(* pkg/tools: the analyze_coverage and run_go_test handlers                *)
(***************************************************************************)
runIdle ==
    /\ pc = "off"
    /\ flags = [workspace |-> "unset", gopls |-> "unset", logLevel |-> S_info,
                rpcTimeout |-> 0, shutdownTimeout |-> 0]
    /\ factoryErr = Nil
    /\ startErr = Nil
    /\ cfg = ZeroConfig
    /\ ret = Nil
    /\ stdout = <<>>
    /\ calls = <<>>
    /\ deferred = <<>>
    /\ ctx = "none"
    /\ startRet = <<"pending">>
    /\ closeOnce = FALSE
    /\ closeCalled = FALSE
    /\ closeEffects = 0
    /\ otherCloses = 0

InitTools ==
    /\ runIdle
    /\ tpc = "idle"
    /\ req = NoRequest
    /\ ws \in Workspaces
    /\ chan = "ok"
    /\ target = <<>>
    /\ mode = ""
    /\ tempFile = 0
    /\ fs = {}
    /\ nextTemp = 1
    /\ cmds = <<>>
    /\ events = <<>>
    /\ notes = <<>>
    /\ pdeferred = <<>>
    /\ pipe = NoPipe
    /\ result = NoReturn
    /\ trace = <<>>
    /\ pureIdle
    /\ concIdle

\* the host calls a handler when no invocation is under way
CanInvoke == tpc = "idle" /\ nextTemp <= MaxTempFiles

IsFuncMode_nonSummary(outputFormat) == outputFormat # "summary"

\* line 54: outputFormat == "func"
IsFuncMode(outputFormat) == outputFormat = "func"

OutputFormat_noDefault(format) == format

\* lines 45-47: the default output format
OutputFormat(format) == IF format = "" THEN "summary" ELSE format

\* analyze_coverage, lines 31-55 and 66: arguments, target, mode and the
\* first progress notification
CoverageBegin ==
    /\ CanInvoke
    /\ \E r \in Requests, ch \in Channels :
         /\ r.tool = "analyze_coverage"
         /\ LET token == getProgressToken(r.meta)
                packagePath ==
                    normalizePackageTarget(ws, IF r.hasPath THEN r.path ELSE <<>>)
                format == IF r.hasFormat THEN r.format ELSE ""
                outputFormat == OutputFormat(format)
            IN  /\ req' = r
                /\ chan' = ch
                /\ target' = packagePath
                /\ mode' = outputFormat
                /\ IF IsFuncMode(outputFormat)
                   THEN /\ notes' = sendProgressNotification(ch = "nosrv", ch, token,
                                       <<"Running go test with coverage for", packagePath>>)
                        /\ trace' = <<NotifyCall(token,
                                       <<"Running go test with coverage for", packagePath>>)>>
                        /\ tpc' = "createTemp"
                   ELSE /\ notes' = sendProgressNotification(ch = "nosrv", ch, token,
                                       <<"Running go test -cover for", packagePath>>)
                        /\ trace' = <<NotifyCall(token,
                                       <<"Running go test -cover for", packagePath>>)>>
                        /\ tpc' = "simpleRun"
    /\ tempFile' = 0
    /\ cmds' = <<>>
    /\ events' = <<>>
    /\ pdeferred' = <<>>
    /\ pipe' = NoPipe
    /\ result' = NoReturn
    /\ UNCHANGED <<ws, fs, nextTemp, runVars, pureVars, concVars>>

DefersAfterCreateTemp_none == <<>>

\* line 92: defer os.Remove(tempFile.Name())
DefersAfterCreateTemp == <<"Remove">>

\* runCoverageByFunction, lines 88-93: os.CreateTemp hands out a fresh name
\* and creates the file, or fails
CreateTemp ==
    /\ tpc = "createTemp"
    /\ \/ /\ tempFile' = nextTemp
          /\ nextTemp' = nextTemp + 1
          /\ fs' = fs \cup {nextTemp}
          /\ events' = Append(events, <<"create", "", nextTemp>>)
          /\ pdeferred' = pdeferred \o DefersAfterCreateTemp
          /\ pipe' = pipe
          /\ tpc' = "testStep"
       \/ /\ pipe' = [returned |-> TRUE, test |-> ZeroResult, cover |-> <<>>,
                      err |-> <<"createtemp">>]
          /\ events' = Append(events, <<"return", "", 0>>)
          /\ tpc' = "covFinish"
          /\ UNCHANGED <<tempFile, nextTemp, fs, pdeferred>>
    /\ UNCHANGED <<req, ws, chan, target, mode, cmds, notes, result, trace, runVars,
                   pureVars, concVars>>

AfterTestStep_retry(failed) == IF failed THEN "testStep" ELSE "reportStep"

\* lines 96-100: return after a test step that failed to execute, go on to
\* the report step otherwise
AfterTestStep(failed) == IF failed THEN "pipeReturn" ELSE "reportStep"

\* lines 95-98: go test <target> -coverprofile <tempFile>
TestStep ==
    /\ tpc = "testStep"
    /\ \E o \in Outcomes :
         LET testResult == CommandResult("test", target, tempFile, o)
             err == CommandErr(o)
         IN  /\ cmds' = Append(cmds, testResult)
             /\ events' = Append(events, <<"exec", "test", tempFile>>)
             /\ notes' = notes \o runCommandNotes(chan, getProgressToken(req.meta), "test")
             /\ trace' = trace \o runCommandTrace(getProgressToken(req.meta), "test")
             /\ IF ExecFailed(err)
                THEN pipe' = [returned |-> FALSE, test |-> testResult,
                              cover |-> <<>>, err |-> err]
                ELSE pipe' = [pipe EXCEPT !.test = testResult]
             /\ tpc' = AfterTestStep(ExecFailed(err))
    /\ UNCHANGED <<req, ws, chan, target, mode, tempFile, fs, nextTemp, pdeferred,
                   result, runVars, pureVars, concVars>>

\* lines 100-108: go tool cover -func <tempFile>
ReportStep ==
    /\ tpc = "reportStep"
    /\ \E o \in Outcomes :
         LET coverResult == CommandResult("cover", <<>>, tempFile, o)
             coverErr == CommandErr(o)
         IN  /\ cmds' = Append(cmds, coverResult)
             /\ events' = Append(events, <<"exec", "cover", tempFile>>)
             /\ notes' = notes \o runCommandNotes(chan, getProgressToken(req.meta), "cover")
             /\ trace' = trace \o runCommandTrace(getProgressToken(req.meta), "cover")
             /\ IF ExecFailed(coverErr)
                THEN pipe' = [returned |-> FALSE, test |-> pipe.test,
                              cover |-> <<>>, err |-> coverErr]
                ELSE pipe' = [returned |-> FALSE, test |-> pipe.test,
                              cover |-> <<coverResult>>, err |-> Nil]
             /\ tpc' = "pipeReturn"
    /\ UNCHANGED <<req, ws, chan, target, mode, tempFile, fs, nextTemp, pdeferred,
                   result, runVars, pureVars, concVars>>

\* runCoverageByFunction returns: its deferred os.Remove runs first
PipeReturn ==
    /\ tpc = "pipeReturn"
    /\ IF pdeferred # <<>> /\ pdeferred[Len(pdeferred)] = "Remove"
       THEN /\ fs' = fs \ {tempFile}
            /\ events' = events \o <<<<"remove", "", tempFile>>, <<"return", "", 0>>>>
       ELSE /\ fs' = fs
            /\ events' = Append(events, <<"return", "", 0>>)
    /\ pdeferred' = <<>>
    /\ pipe' = [pipe EXCEPT !.returned = TRUE]
    /\ tpc' = "covFinish"
    /\ UNCHANGED <<req, ws, chan, target, mode, tempFile, nextTemp, cmds, notes,
                   result, trace, runVars, pureVars, concVars>>

CoveragePayload_noCover(tgt, md, res) ==
    [target |-> tgt, mode |-> md, test |-> res.test]

\* analyze_coverage, lines 49-52 and 60-63: the payload of the per-function
\* mode; res is what runCoverageByFunction returned
CoveragePayload(tgt, md, res) ==
    IF res.cover # <<>>
    THEN [target |-> tgt, mode |-> md, test |-> res.test, cover |-> res.cover[1]]
    ELSE [target |-> tgt, mode |-> md, test |-> res.test]

\* analyze_coverage, lines 56-64 and 74-78
CoverageFinish ==
    /\ tpc = "covFinish"
    /\ IF pipe.err # Nil
       THEN /\ result' = HandlerReturn(
                   NewToolResultErrorFromErr("coverage analysis failed", pipe.err), Nil)
            /\ notes' = notes
            /\ trace' = trace
       ELSE /\ result' = ReturnJSON(CoveragePayload(target, mode, pipe))
            /\ notes' = notes \o sendProgressNotification(chan = "nosrv", chan,
                            getProgressToken(req.meta),
                            <<"Coverage analysis finished for", target>>)
            /\ trace' = Append(trace, NotifyCall(getProgressToken(req.meta),
                            <<"Coverage analysis finished for", target>>))
    /\ tpc' = "done"
    /\ UNCHANGED <<req, ws, chan, target, mode, tempFile, fs, nextTemp, cmds, events,
                   pdeferred, pipe, runVars, pureVars, concVars>>

\* analyze_coverage, lines 67-78: go test <target> -cover
CoverageSimple ==
    /\ tpc = "simpleRun"
    /\ \E o \in Outcomes :
         LET testResult == CommandResult("test-cover", target, 0, o)
             err == CommandErr(o)
         IN  /\ cmds' = Append(cmds, testResult)
             /\ events' = Append(events, <<"exec", "test-cover", 0>>)
             /\ notes' = notes \o runCommandNotes(chan, getProgressToken(req.meta), "test")
             /\ trace' = trace \o runCommandTrace(getProgressToken(req.meta), "test")
             /\ IF ExecFailed(err)
                THEN result' = HandlerReturn(
                         NewToolResultErrorFromErr("go test failed", err), Nil)
                ELSE result' = ReturnJSON(
                         [target |-> target, mode |-> mode, test |-> testResult])
    /\ tpc' = "done"
    /\ UNCHANGED <<req, ws, chan, target, mode, tempFile, fs, nextTemp, pdeferred,
                   pipe, runVars, pureVars, concVars>>

\* run_go_test, lines 119-145: go test <target>
GoTest ==
    /\ CanInvoke
    /\ \E r \in Requests, ch \in Channels, o \in Outcomes :
         /\ r.tool = "run_go_test"
         /\ LET token == getProgressToken(r.meta)
                tgt == normalizePackageTarget(ws, IF r.hasPath THEN r.path ELSE P_all)
                res == CommandResult("test", tgt, 0, o)
                err == CommandErr(o)
            IN  /\ req' = r
                /\ chan' = ch
                /\ target' = tgt
                /\ cmds' = <<res>>
                /\ events' = <<<<"exec", "test", 0>>>>
                /\ notes' = sendProgressNotification(ch = "nosrv", ch, token,
                                <<"Running go test for", tgt>>)
                            \o runCommandNotes(ch, token, "test")
                /\ trace' = <<NotifyCall(token, <<"Running go test for", tgt>>)>>
                            \o runCommandTrace(token, "test")
                /\ IF ExecFailed(err)
                   THEN result' = HandlerReturn(
                            NewToolResultErrorFromErr("go test failed", err), Nil)
                   ELSE result' = ReturnJSON([target |-> tgt, result |-> res])
    /\ mode' = ""
    /\ tempFile' = 0
    /\ pdeferred' = <<>>
    /\ pipe' = NoPipe
    /\ tpc' = "done"
    /\ UNCHANGED <<ws, fs, nextTemp, runVars, pureVars, concVars>>

\* the handler has returned: its locals are gone, the files and the
\* workspace stay
HandlerExit ==
    /\ tpc = "done"
    /\ tpc' = "idle"
    /\ req' = NoRequest
    /\ chan' = "ok"
    /\ target' = <<>>
    /\ mode' = ""
    /\ tempFile' = 0
    /\ cmds' = <<>>
    /\ events' = <<>>
    /\ notes' = <<>>
    /\ pdeferred' = <<>>
    /\ pipe' = NoPipe
    /\ result' = NoReturn
    /\ trace' = <<>>
    /\ UNCHANGED <<ws, fs, nextTemp, runVars, pureVars, concVars>>

NextTools ==
    \/ HandlerExit
    \/ CoverageBegin
    \/ CreateTemp
    \/ TestStep
    \/ ReportStep
    \/ PipeReturn
    \/ CoverageFinish
    \/ CoverageSimple
    \/ GoTest

SpecTools == InitTools /\ [][NextTools]_vars

(***************************************************************************)
(* pkg/tools: one call of sendProgressNotification or of                    *)
(* normalizePackageTarget, on arguments of every kind                      *)
(***************************************************************************)
Tokens == {NoToken, "tok", "tok2"}
Messages == {<<>>, <<"m">>, <<"started", "test">>}

NotifyCalls ==
    [fn : {"sendProgressNotification"}, srvNil : BOOLEAN,
     ch : Channels \ {"nosrv"}, token : Tokens, message : Messages]
NormalizeCalls ==
    [fn : {"normalizePackageTarget"}, w : Workspaces, requested : PathArgs]

InitPure ==
    /\ runIdle
    /\ toolsIdle
    /\ concIdle
    /\ call \in NotifyCalls \cup NormalizeCalls
    /\ out = NoOut

ApplyNotify ==
    /\ call.fn = "sendProgressNotification"
    /\ ~out.returned
    /\ out' = [returned |-> TRUE,
               value |-> sendProgressNotification(call.srvNil, call.ch, call.token,
                                                  call.message)]
    /\ UNCHANGED <<call, runVars, toolVars, concVars>>

ApplyNormalize ==
    /\ call.fn = "normalizePackageTarget"
    /\ ~out.returned
    /\ out' = [returned |-> TRUE,
               value |-> normalizePackageTarget(call.w, call.requested)]
    /\ UNCHANGED <<call, runVars, toolVars, concVars>>

NextPure ==
    \/ ApplyNotify
    \/ ApplyNormalize

SpecPure == InitPure /\ [][NextPure]_vars

(***************************************************************************)
(* runCoverageByFunction, two invocations running at once                  *)
(***************************************************************************)
Invocations == {1, 2}

\* the names os.CreateTemp can draw for the pattern coverage-*.out
TempNames == 1..MaxTempNames

FreeNames_any(files) == TempNames

\* os.CreateTemp opens with O_EXCL: it settles on a name no file has
FreeNames(files) == TempNames \ DOMAIN files

\* who created the file of that name (0: no such file)
Owner(name) == IF name \in DOMAIN cfs THEN cfs[name] ELSE 0

InitConc ==
    /\ runIdle
    /\ toolsIdle
    /\ pureIdle
    /\ jobs = [k \in Invocations |->
                  [pc |-> "createTemp", tempFile |-> 0, deferred |-> <<>>]]
    /\ cfs = <<>>
    /\ clog = <<>>

\* lines 88-93
ConcCreateTemp ==
    /\ \E k \in Invocations :
         /\ jobs[k].pc = "createTemp"
         /\ \/ \E n \in FreeNames(cfs) :
                  /\ cfs' = [x \in DOMAIN cfs \cup {n} |->
                                 IF x = n THEN k ELSE cfs[x]]
                  /\ jobs' = [jobs EXCEPT ![k] =
                                 [pc |-> "testStep", tempFile |-> n,
                                  deferred |-> DefersAfterCreateTemp]]
                  /\ clog' = Append(clog, <<"create", k, "", n, k>>)
            \/ /\ jobs' = [jobs EXCEPT ![k].pc = "returned"]
               /\ clog' = Append(clog, <<"return", k, "", 0, 0>>)
               /\ cfs' = cfs
    /\ UNCHANGED <<runVars, toolVars, pureVars>>

\* lines 95-98: go test writes the profile jobs[k].tempFile names
ConcTestStep ==
    /\ \E k \in Invocations, o \in Outcomes :
         /\ jobs[k].pc = "testStep"
         /\ clog' = Append(clog, <<"exec", k, "test", jobs[k].tempFile,
                                   Owner(jobs[k].tempFile)>>)
         /\ jobs' = [jobs EXCEPT ![k].pc = AfterTestStep(ExecFailed(CommandErr(o)))]
    /\ UNCHANGED <<cfs, runVars, toolVars, pureVars>>

\* lines 100-108: go tool cover reads the profile jobs[k].tempFile names
ConcReportStep ==
    /\ \E k \in Invocations, o \in Outcomes :
         /\ jobs[k].pc = "reportStep"
         /\ clog' = Append(clog, <<"exec", k, "cover", jobs[k].tempFile,
                                   Owner(jobs[k].tempFile)>>)
         /\ jobs' = [jobs EXCEPT ![k].pc = "pipeReturn"]
    /\ UNCHANGED <<cfs, runVars, toolVars, pureVars>>

\* the return: the deferred os.Remove deletes the file of that name
ConcPipeReturn ==
    /\ \E k \in Invocations :
         /\ jobs[k].pc = "pipeReturn"
         /\ IF jobs[k].deferred # <<>>
            THEN /\ cfs' = [x \in DOMAIN cfs \ {jobs[k].tempFile} |-> cfs[x]]
                 /\ clog' = clog \o <<<<"remove", k, "", jobs[k].tempFile,
                                         Owner(jobs[k].tempFile)>>,
                                       <<"return", k, "", 0, 0>>>>
            ELSE /\ cfs' = cfs
                 /\ clog' = Append(clog, <<"return", k, "", 0, 0>>)
         /\ jobs' = [jobs EXCEPT ![k].pc = "returned", ![k].deferred = <<>>]
    /\ UNCHANGED <<runVars, toolVars, pureVars>>

NextConc ==
    \/ ConcCreateTemp
    \/ ConcTestStep
    \/ ConcReportStep
    \/ ConcPipeReturn

SpecConc == InitConc /\ [][NextConc]_vars

(***************************************************************************)
(* Claims about the testing tools                                          *)
(***************************************************************************)
\* the command results a JSON payload carries
PayloadResults ==
    IF result.kind = "json"
    THEN {result.res.payload[k] :
              k \in DOMAIN result.res.payload \cap {"test", "cover", "result"}}
    ELSE {}

CmdIdx == 1..Len(cmds)

\* C7 as stated: for every command a handler ran, a non-zero exit status ends
\* in the normal JSON payload carrying that command's result, a failure to
\* execute ends in a tool-level error result, and no handler returns a Go
\* error.
C7_ExitStatusAlwaysInPayload ==
    tpc = "done" =>
        /\ result.goErr = Nil
        /\ \A i \in CmdIdx :
             /\ cmds[i].outcome = "exit" =>
                   (result.kind = "json" /\ cmds[i] \in PayloadResults)
             /\ cmds[i].outcome \in ExecErrors => result.kind = "toolError"

\* C7, amended: a non-zero exit status ends in the normal JSON payload
\* carrying that command's result unless another command of the same
\* invocation failed to execute; a failure to execute ends in a tool-level
\* error result carrying that error; no handler returns a Go error.
C7_OutcomeClassification ==
    tpc = "done" =>
        /\ result.goErr = Nil
        /\ result.kind \in {"json", "toolError"}
        /\ \A i \in CmdIdx :
             /\ cmds[i].outcome \in Completions =>
                   \/ result.kind = "json" /\ cmds[i] \in PayloadResults
                   \/ /\ result.kind = "toolError"
                      /\ \E j \in CmdIdx \ {i} : cmds[j].outcome \in ExecErrors
             /\ cmds[i].outcome \in ExecErrors =>
                   /\ result.kind = "toolError"
                   /\ result.res.err = <<cmds[i].outcome>>

\* run_go_test over failing tests returned its payload
C7_Witness ==
    /\ tpc = "done"
    /\ req.tool = "run_go_test"
    /\ Len(cmds) = 1
    /\ cmds[1].outcome = "exit"
    /\ result.kind = "json"
    /\ result.res.payload.result = cmds[1]

TestIdx == {i \in CmdIdx : cmds[i].kind = "test"}
CoverIdx == {i \in CmdIdx : cmds[i].kind = "cover"}
InPipeline == req.tool = "analyze_coverage" /\ IsFuncMode(mode)

\* C8: in the per-function pipeline the report step is attempted exactly when
\* the test step completed, with exit status zero or not; it is never
\* attempted after a test step that failed to execute; the test step runs
\* before the report step.
C8_ReportIffTestCompleted ==
    InPipeline =>
        /\ Cardinality(TestIdx) <= 1 /\ Cardinality(CoverIdx) <= 1
        /\ \A j \in CoverIdx :
              \E i \in TestIdx : i < j /\ cmds[i].outcome \in Completions
        /\ \A i \in TestIdx : cmds[i].outcome \in ExecErrors => CoverIdx = {}
        /\ pipe.returned =>
              ((\E i \in TestIdx : cmds[i].outcome \in Completions) <=> CoverIdx # {})

\* the pipeline returned after failing tests and an attempted report
C8_Witness ==
    /\ InPipeline
    /\ pipe.returned
    /\ Len(cmds) = 2
    /\ cmds[1].kind = "test" /\ cmds[1].outcome = "exit"
    /\ cmds[2].kind = "cover"

\* the outcomes of runCoverageByFunction
TerminalFailure ==
    /\ Len(cmds) = 1
    /\ cmds[1].kind = "test" /\ cmds[1].outcome \in ExecErrors
    /\ pipe.err = <<cmds[1].outcome>>
    /\ pipe.cover = <<>>
TerminalPartial ==
    /\ Len(cmds) = 2
    /\ cmds[1].kind = "test" /\ cmds[1].outcome \in Completions
    /\ cmds[2].kind = "cover" /\ cmds[2].outcome \in ExecErrors
    /\ pipe.test = cmds[1]
    /\ pipe.cover = <<>>
    /\ pipe.err = <<cmds[2].outcome>>
TerminalSuccess ==
    /\ Len(cmds) = 2
    /\ cmds[1].kind = "test" /\ cmds[1].outcome \in Completions
    /\ cmds[2].kind = "cover" /\ cmds[2].outcome \in Completions
    /\ pipe.test = cmds[1]
    /\ pipe.cover = <<cmds[2]>>
    /\ pipe.err = Nil
SetupFailure ==
    /\ cmds = <<>>
    /\ tempFile = 0
    /\ pipe.test = ZeroResult
    /\ pipe.cover = <<>>
    /\ pipe.err = <<"createtemp">>

\* C9 as stated: the pipeline ends in exactly one of terminal-failure,
\* terminal-partial and terminal-success, and the report result is present
\* exactly when no error is returned.
C9_ThreeOutcomes ==
    (InPipeline /\ pipe.returned) =>
        /\ Cardinality({o \in {"failure", "partial", "success"} :
              \/ o = "failure" /\ TerminalFailure
              \/ o = "partial" /\ TerminalPartial
              \/ o = "success" /\ TerminalSuccess}) = 1
        /\ (pipe.cover # <<>>) <=> (pipe.err = Nil)

\* C9, amended: the pipeline ends in exactly one of four outcomes, the three
\* above and setup-failure (the temporary file cannot be created: the error
\* is returned, no step runs, no result is populated); the report result is
\* present exactly when no error is returned.
C9_FourOutcomes ==
    (InPipeline /\ pipe.returned) =>
        /\ Cardinality({o \in {"setup", "failure", "partial", "success"} :
              \/ o = "setup" /\ SetupFailure
              \/ o = "failure" /\ TerminalFailure
              \/ o = "partial" /\ TerminalPartial
              \/ o = "success" /\ TerminalSuccess}) = 1
        /\ (pipe.cover # <<>>) <=> (pipe.err = Nil)

\* the pipeline returned the test result and the report step's error
C9_Witness ==
    /\ InPipeline
    /\ pipe.returned
    /\ TerminalPartial
    /\ cmds[1].outcome = "exit"
    /\ pipe.err = <<"io">>

EventIdx == 1..Len(events)

\* C10: the profile file exists from before the test step starts, and no
\* temporary file exists once the pipeline has returned, on the success, the
\* report-error and the test-error path.
C10_ProfileRemovedOnEveryExit ==
    /\ tpc = "testStep" => (tempFile # 0 /\ tempFile \in fs)
    /\ \A j \in EventIdx :
          (events[j][1] = "exec" /\ events[j][3] # 0) =>
              /\ \E i \in 1..(j - 1) : events[i] = <<"create", "", events[j][3]>>
              /\ \A i \in 1..(j - 1) : events[i][1] # "remove"
    /\ \A j \in EventIdx :
          events[j][1] = "return" => (tempFile \notin fs /\ fs = {})
    /\ tpc \in {"idle", "covFinish", "done"} => fs = {}

\* the pipeline returned a test-step execution error, the profile is gone
C10_Witness ==
    /\ InPipeline
    /\ pipe.returned
    /\ TerminalFailure
    /\ tempFile # 0
    /\ events = <<<<"create", "", tempFile>>, <<"exec", "test", tempFile>>,
                  <<"remove", "", tempFile>>, <<"return", "", 0>>>>
    /\ fs = {}

(***************************************************************************)
(* Claims about the results of analyze_coverage and run_go_test            *)
(***************************************************************************)
\* an analyze_coverage invocation whose output_format argument is "func"
FuncRequested ==
    req.tool = "analyze_coverage" /\ req.hasFormat /\ req.format = "func"

BothSucceeded ==
    Len(cmds) = 2 /\ cmds[1].outcome = "ok" /\ cmds[2].outcome = "ok"
TestStepNotExecuted == Len(cmds) >= 1 /\ cmds[1].outcome \in ExecErrors

\* C11 as stated: analyze_coverage with output_format "func" ends in a result
\* holding the test outcome and a coverage report when both commands succeed,
\* and in a result holding the test outcome and no coverage report when the
\* test step fails to execute.
C11_TestOutcomeWithoutReport ==
    (tpc = "done" /\ FuncRequested) =>
        /\ BothSucceeded =>
              /\ result.kind = "json"
              /\ DOMAIN result.res.payload = {"target", "mode", "test", "cover"}
              /\ result.res.payload.test = cmds[1]
              /\ result.res.payload.cover = cmds[2]
        /\ TestStepNotExecuted =>
              /\ result.kind = "json"
              /\ "test" \in DOMAIN result.res.payload
              /\ "cover" \notin DOMAIN result.res.payload

\* C11, amended: with output_format "func" the result holds the test outcome
\* and a coverage report when both commands succeed; when the test step fails
\* to execute the handler returns the tool-level error "coverage analysis
\* failed" carrying that error and no payload, while runCoverageByFunction
\* itself returned the test outcome with an absent coverage report.
C11_FuncModeResult ==
    (tpc = "done" /\ FuncRequested) =>
        /\ BothSucceeded =>
              /\ result.kind = "json"
              /\ DOMAIN result.res.payload = {"target", "mode", "test", "cover"}
              /\ result.res.payload.test = cmds[1]
              /\ result.res.payload.cover = cmds[2]
        /\ TestStepNotExecuted =>
              /\ result.kind = "toolError"
              /\ result.res.msg = "coverage analysis failed"
              /\ result.res.err = <<cmds[1].outcome>>
              /\ result.goErr = Nil
              /\ pipe.test = cmds[1]
              /\ pipe.cover = <<>>

\* go test could not be started in the per-function mode
C11_Witness ==
    /\ tpc = "done"
    /\ FuncRequested
    /\ Len(cmds) = 1
    /\ cmds[1].outcome = "notfound"
    /\ result.kind = "toolError"
    /\ pipe.test = cmds[1]

PipelinePositions == {"createTemp", "testStep", "reportStep", "pipeReturn", "covFinish"}

\* C12: the two-step pipeline runs only for output_format "func"; for an
\* output_format that is missing, empty, "summary" or any other value the
\* handler runs exactly one command, go test -cover, creates no profile file
\* and never runs the report step.
C12_ModeSelection ==
    req.tool = "analyze_coverage" =>
        /\ (tpc \in PipelinePositions \/ tempFile # 0 \/ CoverIdx # {}
               \/ \E i \in EventIdx : events[i][1] \in {"create", "return"})
              => FuncRequested
        /\ ~FuncRequested =>
              /\ tpc \in {"simpleRun", "done"}
              /\ Len(cmds) <= 1
              /\ \A i \in CmdIdx :
                    cmds[i].kind = "test-cover" /\ cmds[i].profile = 0
              /\ \A i \in EventIdx : events[i] = <<"exec", "test-cover", 0>>
              /\ tpc = "done" <=> Len(cmds) = 1
        /\ (FuncRequested /\ tpc = "done") =>
              /\ \A i \in CmdIdx : cmds[i].kind \in {"test", "cover"}
              /\ \E i \in EventIdx : events[i][1] = "return"

\* an unrecognized output_format ran the simple mode
C12_Witness ==
    /\ tpc = "done"
    /\ req.tool = "analyze_coverage"
    /\ req.hasFormat /\ req.format = "html"
    /\ Len(cmds) = 1
    /\ cmds[1].kind = "test-cover"
    /\ events = <<<<"exec", "test-cover", 0>>>>

\* the workspace directory is set and readable
Readable == ws.dir = "set" /\ ~ws.readErr
DotRequested == req.hasPath /\ req.path = P_dot

\* C13: with a readable workspace that has no Go file directly in its root a
\* requested "." becomes "./..."; with a Go file in the root "." stays ".";
\* run_go_test without a path uses "./..."; the command runs on that target.
C13_TargetNormalization ==
    req.tool \in {"analyze_coverage", "run_go_test"} =>
        /\ (DotRequested /\ Readable /\ E_mainGo \notin ws.entries) => target = P_all
        /\ (DotRequested /\ Readable /\ E_mainGo \in ws.entries) => target = P_dot
        /\ (req.tool = "run_go_test" /\ ~req.hasPath) => target = P_all
        /\ \A i \in CmdIdx :
              cmds[i].kind \in {"test", "test-cover"} => cmds[i].target = target
        /\ result.kind = "json" => result.res.payload.target = target

\* "." on a workspace whose root holds only directories, one named x.go
C13_Witness ==
    /\ tpc = "done"
    /\ req.tool = "run_go_test"
    /\ DotRequested
    /\ ws.entries = {E_pkgDir, E_goDir}
    /\ target = P_all
    /\ cmds[1].target = P_all
    /\ result.kind = "json"

(***************************************************************************)
(* Claims about progress notifications                                     *)
(***************************************************************************)
TraceIdx == 1..Len(trace)
ExecIdx == {j \in TraceIdx : trace[j][1] = "exec"}
NotifyIdx == {j \in TraceIdx : trace[j][1] = "notify"}
HasToken == req.meta.present /\ req.meta.ProgressToken # NoToken

\* trace[j] is a notifier call with the request's token and a message that
\* starts with `word` and names the command `kind`
IsBracket(j, word, kind) ==
    /\ j \in NotifyIdx
    /\ trace[j][2] = req.meta.ProgressToken
    /\ trace[j][3][1] = word
    /\ trace[j][3][2] = kind

\* C14: in an invocation that carries a progress token every executed command
\* has a "started" notification right before it and a "finished" notification
\* right after it, whatever the command's outcome and whether the handler
\* ends in a payload or in an error; every executed command is one of these,
\* and a working channel delivers each of them.
C14_StartedBeforeFinishedAfter ==
    (req.tool \in {"analyze_coverage", "run_go_test"} /\ HasToken) =>
        /\ \A j \in ExecIdx :
              /\ IsBracket(j - 1, "started", trace[j][2])
              /\ IsBracket(j + 1, "finished", trace[j][2])
        /\ Cardinality(ExecIdx) = Len(cmds)
        /\ chan = "ok" =>
              /\ Len(notes) = Cardinality(NotifyIdx)
              /\ \A j \in ExecIdx :
                    \E a, b \in 1..Len(notes) :
                        /\ a < b
                        /\ notes[a].message[1] = "started"
                        /\ notes[a].message[2] = trace[j][2]
                        /\ notes[b].message[1] = "finished"
                        /\ notes[b].message[2] = trace[j][2]

\* a killed go test under run_go_test: the handler ends in a tool error, the
\* command was bracketed all the same
C14_Witness ==
    /\ tpc = "done"
    /\ req.tool = "run_go_test"
    /\ HasToken
    /\ chan = "ok"
    /\ cmds[1].outcome = "killed"
    /\ result.kind = "toolError"
    /\ Len(trace) = 4
    /\ trace[3] = <<"exec", "test">>
    /\ IsBracket(2, "started", "test")
    /\ IsBracket(4, "finished", "test")
    /\ Len(notes) = 3

\* what an invocation returns, told from its arguments, the workspace and the
\* outcomes of the commands it ran alone
ExpectedToolError(msg, e) ==
    [kind |-> "toolError",
     res |-> [kind |-> "toolError", msg |-> msg, err |-> e], goErr |-> Nil]
ExpectedJSON(payload) ==
    [kind |-> "json", res |-> [kind |-> "json", payload |-> payload], goErr |-> Nil]
ExpectedResult ==
    LET tgt == normalizePackageTarget(ws,
                   IF req.hasPath THEN req.path
                   ELSE IF req.tool = "run_go_test" THEN P_all ELSE <<>>)
        failed == {i \in CmdIdx : cmds[i].outcome \in ExecErrors}
    IN  IF req.tool = "run_go_test"
        THEN IF failed # {}
             THEN ExpectedToolError("go test failed", <<cmds[1].outcome>>)
             ELSE ExpectedJSON([target |-> tgt, result |-> cmds[1]])
        ELSE IF req.hasFormat /\ req.format = "func"
        THEN IF cmds = <<>>
             THEN ExpectedToolError("coverage analysis failed", <<"createtemp">>)
             ELSE IF failed # {}
             THEN ExpectedToolError("coverage analysis failed",
                                    <<cmds[Len(cmds)].outcome>>)
             ELSE ExpectedJSON([target |-> tgt, mode |-> "func",
                                test |-> cmds[1], cover |-> cmds[2]])
        ELSE IF failed # {}
             THEN ExpectedToolError("go test failed", <<cmds[1].outcome>>)
             ELSE ExpectedJSON([target |-> tgt,
                                mode |-> IF req.format = "" THEN "summary"
                                         ELSE req.format,
                                test |-> cmds[1]])

\* C15: nothing is delivered when the request has no token, when the server
\* is nil, when the payload cannot be built or when the send fails; the
\* handler still returns, and what it returns is told by its arguments, the
\* workspace and the command outcomes alone, so it is the same for every
\* token and every state of the channel.
C15_NotificationsAdvisory ==
    req.tool \in {"analyze_coverage", "run_go_test"} =>
        /\ (~HasToken \/ chan # "ok") => notes = <<>>
        /\ (HasToken /\ chan = "ok") => Len(notes) = Cardinality(NotifyIdx)
        /\ tpc = "done" => result = ExpectedResult

\* every send failed and the invocation returned its payload
C15_Witness ==
    /\ tpc = "done"
    /\ req.tool = "analyze_coverage"
    /\ HasToken
    /\ chan = "sendfail"
    /\ Cardinality(NotifyIdx) = 6
    /\ notes = <<>>
    /\ result.kind = "json"
    /\ "cover" \in DOMAIN result.res.payload

Notified == call.fn = "sendProgressNotification" /\ out.returned

\* C18: a progress event that is sent carries the token of the call
\* unchanged and the progress value 0, and has a message field exactly when
\* the message text is not empty; at most one event is sent per call.
C18_EventShape ==
    Notified =>
        /\ Len(out.value) <= 1
        /\ \A i \in 1..Len(out.value) :
              LET e == out.value[i] IN
              /\ {"progressToken", "progress"} \subseteq DOMAIN e
              /\ DOMAIN e \subseteq {"progressToken", "progress", "message"}
              /\ e.progressToken = call.token
              /\ e.progressToken # NoToken
              /\ e.progress = 0
              /\ ("message" \in DOMAIN e) <=> (call.message # <<>>)
              /\ "message" \in DOMAIN e => e.message = call.message
        /\ (~call.srvNil /\ call.token # NoToken /\ call.ch = "ok")
              => Len(out.value) = 1

\* an event sent for an empty message: the token, progress 0, no message
C18_Witness ==
    /\ Notified
    /\ call.message = <<>>
    /\ call.token = "tok2"
    /\ out.value = <<[progressToken |-> "tok2", progress |-> 0]>>

Normalized == call.fn = "normalizePackageTarget" /\ out.returned

\* C20: normalizePackageTarget never returns the empty target; normalizing
\* its result again, for the same workspace, returns that result; a target
\* that, trimmed, is not empty, "." or "./" is returned trimmed and otherwise
\* as given; "." stays "." when the workspace directory is unset or cannot
\* be read.
C20_NormalizeIdempotent ==
    Normalized =>
        LET t == TrimSpace(call.requested) IN
        /\ out.value # <<>>
        /\ normalizePackageTarget(call.w, out.value) = out.value
        /\ t \notin {<<>>, P_dot, P_dotSlash} => out.value = t
        /\ (t = P_dot /\ (call.w.dir = "unset" \/ call.w.readErr))
              => out.value = P_dot
        /\ \A i \in 1..Len(out.value) :
              i \in {1, Len(out.value)} => ~IsSpace(out.value[i])

\* " ./p " on a workspace whose root has no Go file comes back as "./p"
C20_Witness ==
    /\ Normalized
    /\ call.requested = <<" ", ".", "/", "p", " ">>
    /\ call.w = [dir |-> "set", readErr |-> FALSE, entries |-> {E_pkgDir, E_readme}]
    /\ out.value = <<".", "/", "p">>

(***************************************************************************)
(* Claims about the commands an invocation runs                            *)
(***************************************************************************)
\* C17: an invocation runs each of its commands at most once and nothing
\* after a command that failed to execute: run_go_test and analyze_coverage
\* outside the "func" mode end with exactly one command run, the "func" mode
\* with at most two (one test step, one report step); a failure to execute
\* is the handler's tool error, a non-zero exit status is run once as well.
C17_NoRetry ==
    req.tool \in {"analyze_coverage", "run_go_test"} =>
        /\ \A i, j \in CmdIdx : cmds[i].kind = cmds[j].kind => i = j
        /\ Len(cmds) <= 2
        /\ Cardinality(ExecIdx) = Len(cmds)
        /\ \A i \in CmdIdx : cmds[i].outcome \in ExecErrors => i = Len(cmds)
        /\ tpc = "done" =>
              /\ req.tool = "run_go_test" => Len(cmds) = 1
              /\ (req.tool = "analyze_coverage" /\ ~FuncRequested) => Len(cmds) = 1
              /\ \A i \in CmdIdx : cmds[i].outcome \in ExecErrors =>
                    (result.kind = "toolError" /\ result.res.err = <<cmds[i].outcome>>)

\* the test step could not be run: one command, one tool error
C17_Witness ==
    /\ tpc = "done"
    /\ FuncRequested
    /\ Len(cmds) = 1
    /\ cmds[1].outcome = "io"
    /\ Cardinality(ExecIdx) = 1
    /\ result.kind = "toolError"
    /\ result.res.err = <<"io">>

\* the two-step pipeline is the one that ran
PipelineRan == \E i \in EventIdx : events[i][1] = "return"

\* C19: a JSON result of analyze_coverage has the fields target, mode and
\* test, and cover at most; mode is "func" exactly when the two-step pipeline
\* ran and "summary" when no output_format was given; cover is present only
\* with mode "func" and a report step that completed, and is its result.
C19_PayloadShape ==
    (tpc = "done" /\ req.tool = "analyze_coverage" /\ result.kind = "json") =>
        LET p == result.res.payload IN
        /\ {"target", "mode", "test"} \subseteq DOMAIN p
        /\ DOMAIN p \subseteq {"target", "mode", "test", "cover"}
        /\ p.target = target
        /\ p.test = cmds[1]
        /\ (p.mode = "func") <=> PipelineRan
        /\ (~req.hasFormat \/ req.format = "") => p.mode = "summary"
        /\ "cover" \in DOMAIN p =>
              /\ p.mode = "func"
              /\ Len(cmds) = 2
              /\ cmds[2].kind = "cover"
              /\ cmds[2].outcome \in Completions
              /\ p.cover = cmds[2]

\* no output_format: mode "summary", no cover field
C19_Witness ==
    /\ tpc = "done"
    /\ req.tool = "analyze_coverage"
    /\ ~req.hasFormat
    /\ result.kind = "json"
    /\ result.res.payload.mode = "summary"
    /\ DOMAIN result.res.payload = {"target", "mode", "test"}

(***************************************************************************)
(* Claims about concurrent invocations                                     *)
(***************************************************************************)
\* invocation k has created its profile and not yet removed it
InUse(k) == jobs[k].pc \in {"testStep", "reportStep", "pipeReturn"}
LogIdx == 1..Len(clog)

\* C16: with two invocations of the per-function pipeline interleaved in any
\* way, whenever both hold a profile file the two names differ; the file an
\* invocation holds exists and is the one it created; every test and report
\* step works on the file its own invocation created; a cleanup removes the
\* file of its own invocation only, never one the other still holds; once
\* both have returned no file is left.
C16_OwnProfile ==
    /\ \A a, b \in Invocations :
          (a # b /\ InUse(a) /\ InUse(b)) => jobs[a].tempFile # jobs[b].tempFile
    /\ \A k \in Invocations :
          InUse(k) => (jobs[k].tempFile \in DOMAIN cfs /\ cfs[jobs[k].tempFile] = k)
    /\ \A i \in LogIdx :
          clog[i][1] \in {"exec", "remove"} => clog[i][5] = clog[i][2]
    /\ (\A k \in Invocations : jobs[k].pc = "returned") => cfs = <<>>

\* both invocations hold a profile; the first has run its test step, the
\* second has just created its file
C16_Witness ==
    /\ jobs[1].pc = "reportStep"
    /\ jobs[2].pc = "testStep"
    /\ jobs[1].tempFile = 2
    /\ jobs[2].tempFile = 1
    /\ DOMAIN cfs = {1, 2}
    /\ clog = <<<<"create", 1, "", 2, 1>>, <<"exec", 1, "test", 2, 1>>,
                <<"create", 2, "", 1, 2>>>>

====
